---- MODULE Spec2Model ----
(***************************************************************************)
(* Printesora: settings files on an SD card are parsed into the global     *)
(* configuration and document records, and every job file of the jobs      *)
(* directory is rendered (image, then text) on a thermal printer.          *)
(*                                                                         *)
(* Strings are sequences of one-character strings, so that the character   *)
(* loops of the parser and of String::toInt are computed as the code       *)
(* computes them.                                                          *)
(***************************************************************************)
EXTENDS Integers, Sequences, FiniteSets, TLC

VARIABLES
    pc,             \* position of the single flow of control
    sdPresent,      \* whether SD.begin() succeeds
    sdFiles,        \* the card's regular files: path -> content (segments)
    sdDirs,         \* the card's directories: path -> sequence of entries
    configuration,  \* struct Settings configuration
    document,       \* struct Document document
    applied,        \* Serial lines "Applying setting: name=value" of the last parse
    directoryName,  \* parameter of printFromDirectory
    dirIndex,       \* entries of dir already returned by openNextFile
    entry,          \* the open directory entry, or NoEntry
    imageAvail,     \* imageFile.available() of the open image file
    log,            \* printer calls and "Printing document" lines, in order
    handles         \* the File objects that are open

vars == <<pc, sdPresent, sdFiles, sdDirs, configuration, document, applied,
          directoryName, dirIndex, entry, imageAvail, log, handles>>

(***************************************************************************)
(* Bounds of the model.                                                    *)
(***************************************************************************)
MaxRaw == 6        \* longest raw settings stream of SpecParse
MaxPairs == 2      \* most [key=value] entries of a generated settings stream
MaxEntries == 2    \* most entries of the jobs directory
MaxApplies == 2    \* most applySetting calls of SpecApply
MaxImage == 2      \* bytes of the non-empty image file

(***************************************************************************)
(* Characters and strings.                                                 *)
(***************************************************************************)
EOFCH == "EOF"     \* (char)-1, what File::read() returns at end of file
NUL == "NUL"       \* (char)0, what String::charAt returns out of range

K_font_size == <<"f","o","n","t","_","s","i","z","e">>
K_jobs == <<"j","o","b","s">>
K_line_height == <<"l","i","n","e","_","h","e","i","g","h","t">>
K_charset == <<"c","h","a","r","s","e","t">>
K_codepage == <<"c","o","d","e","p","a","g","e">>
K_heat_time == <<"h","e","a","t","_","t","i","m","e">>
K_image == <<"i","m","a","g","e">>
K_body_text == <<"b","o","d","y","_","t","e","x","t">>
K_width == <<"w","i","d","t","h">>
K_height == <<"h","e","i","g","h","t">>

SETTINGS_FILE == <<"/","s","e","t","t","i","n","g","s",".","t","x","t">>
DefaultJobs == <<"/","j","o","b","s","/">>

CHARSET_USA == 0
CODEPAGE_CP437 == 0

(***************************************************************************)
(* String::toInt(): atol() of the buffer, then the narrowing of the long   *)
(* result to the 16-bit int field it is assigned to.                       *)
(***************************************************************************)
DigitChars == <<"0","1","2","3","4","5","6","7","8","9">>
SpaceChars == {" ", "\t", "\n", "\r"}

IsDigit(c) == \E i \in 1..10 : DigitChars[i] = c

DigitVal(c) == (CHOOSE i \in 1..10 : DigitChars[i] = c) - 1

RECURSIVE SkipSpace(_, _)
SkipSpace(s, i) ==
    IF i <= Len(s) /\ s[i] \in SpaceChars THEN SkipSpace(s, i + 1) ELSE i

RECURSIVE AtolDigits(_, _, _)
AtolDigits(s, i, acc) ==
    IF i <= Len(s) /\ IsDigit(s[i])
    THEN AtolDigits(s, i + 1, acc * 10 + DigitVal(s[i]))
    ELSE acc

Atol(s) ==
    LET i == SkipSpace(s, 1)
        signed == i <= Len(s) /\ s[i] \in {"+", "-"}
        n == AtolDigits(s, IF signed THEN i + 1 ELSE i, 0)
    IN IF signed /\ s[i] = "-" THEN 0 - n ELSE n

IntWrap(n) == ((n + 32768) % 65536) - 32768

\* faulty variant: a conversion that answers -1 when there is no number
ToIntMinusOneOnFailure(s) ==
    LET i == SkipSpace(s, 1)
        j == IF i <= Len(s) /\ s[i] \in {"+", "-"} THEN i + 1 ELSE i
    IN IF j <= Len(s) /\ IsDigit(s[j]) THEN IntWrap(Atol(s)) ELSE 0 - 1

ToInt(s) == IntWrap(Atol(s))

(***************************************************************************)
(* The two global records.                                                 *)
(***************************************************************************)
\* static storage before any init(): zero ints, empty Strings
ConfigurationZero ==
    [charset |-> 0, codePage |-> 0, lineHeight |-> 0, heatTime |-> 0,
     dotPrintTime |-> 0, dotFeedTime |-> 0, fontSize |-> <<>>, jobs |-> <<>>]

SettingsInit ==
    [charset |-> CHARSET_USA, codePage |-> CODEPAGE_CP437, lineHeight |-> 28,
     heatTime |-> 120, dotPrintTime |-> 30000, dotFeedTime |-> 2100,
     fontSize |-> <<"S">>, jobs |-> DefaultJobs]

\* faulty variant: a reset that forgets the two paths
DocumentInitKeepsPaths(d) == [d EXCEPT !.imageWidth = 0, !.imageHeight = 0]

DocumentInit(d) ==
    [d EXCEPT !.imageWidth = 0, !.imageHeight = 0, !.image = <<>>, !.bodyText = <<>>]

DocumentZero ==
    [imageWidth |-> 0, imageHeight |-> 0, image |-> <<>>, bodyText |-> <<>>]

(***************************************************************************)
(* applySetting: two independent if-chains, one per record.                *)
(* g is the pair of globals [configuration, document] plus the Serial log. *)
(***************************************************************************)
\* faulty variant: the width branch also assigns imageHeight
ApplySettingWidthAlsoHeight(g, settingName, settingValue) ==
    LET c == g.configuration
        d == g.document
        c2 == IF settingName = K_font_size THEN [c EXCEPT !.fontSize = settingValue]
              ELSE IF settingName = K_jobs THEN [c EXCEPT !.jobs = settingValue]
              ELSE IF settingName = K_line_height
                   THEN [c EXCEPT !.lineHeight = ToInt(settingValue)]
              ELSE IF settingName = K_charset
                   THEN [c EXCEPT !.charset = ToInt(settingValue)]
              ELSE IF settingName = K_codepage
                   THEN [c EXCEPT !.codePage = ToInt(settingValue)]
              ELSE IF settingName = K_heat_time
                   THEN [c EXCEPT !.heatTime = ToInt(settingValue)]
              ELSE c
        d2 == IF settingName = K_image THEN [d EXCEPT !.image = settingValue]
              ELSE IF settingName = K_body_text THEN [d EXCEPT !.bodyText = settingValue]
              ELSE IF settingName = K_width
                   THEN [d EXCEPT !.imageWidth = ToInt(settingValue),
                                  !.imageHeight = ToInt(settingValue)]
              ELSE IF settingName = K_height
                   THEN [d EXCEPT !.imageHeight = ToInt(settingValue)]
              ELSE d
    IN [g EXCEPT !.configuration = c2, !.document = d2]

ApplySetting(g, settingName, settingValue) ==
    LET c == g.configuration
        d == g.document
        c2 == IF settingName = K_font_size THEN [c EXCEPT !.fontSize = settingValue]
              ELSE IF settingName = K_jobs THEN [c EXCEPT !.jobs = settingValue]
              ELSE IF settingName = K_line_height
                   THEN [c EXCEPT !.lineHeight = ToInt(settingValue)]
              ELSE IF settingName = K_charset
                   THEN [c EXCEPT !.charset = ToInt(settingValue)]
              ELSE IF settingName = K_codepage
                   THEN [c EXCEPT !.codePage = ToInt(settingValue)]
              ELSE IF settingName = K_heat_time
                   THEN [c EXCEPT !.heatTime = ToInt(settingValue)]
              ELSE c
        d2 == IF settingName = K_image THEN [d EXCEPT !.image = settingValue]
              ELSE IF settingName = K_body_text THEN [d EXCEPT !.bodyText = settingValue]
              ELSE IF settingName = K_width
                   THEN [d EXCEPT !.imageWidth = ToInt(settingValue)]
              ELSE IF settingName = K_height
                   THEN [d EXCEPT !.imageHeight = ToInt(settingValue)]
              ELSE d
    IN [g EXCEPT !.configuration = c2, !.document = d2]

(***************************************************************************)
(* readSettingsFromFile over the byte stream s; pos counts the bytes read. *)
(***************************************************************************)
Available(s, pos) == pos < Len(s)

\* faulty variant: a read that answers the last character again at end of file
ReadRepeatsLastAtEnd(s, pos) ==
    IF pos < Len(s) THEN s[pos + 1] ELSE IF Len(s) > 0 THEN s[Len(s)] ELSE EOFCH

Read(s, pos) == IF pos < Len(s) THEN s[pos + 1] ELSE EOFCH

Advance(s, pos) == IF pos < Len(s) THEN pos + 1 ELSE pos

\* while ((document.available()) && (character != '[')) character = read();
RECURSIVE SeekOpen(_, _, _)
SeekOpen(s, pos, character) ==
    IF Available(s, pos) /\ character # "["
    THEN SeekOpen(s, Advance(s, pos), Read(s, pos))
    ELSE [pos |-> pos, character |-> character]

\* faulty variant: a '[' inside a key starts the key again
RECURSIVE ReadNameRestartsAtOpen(_, _, _, _)
ReadNameRestartsAtOpen(s, pos, character, settingName) ==
    IF Available(s, pos) /\ character # "="
    THEN ReadNameRestartsAtOpen(s, Advance(s, pos), Read(s, pos),
            IF character = "[" THEN <<>> ELSE Append(settingName, character))
    ELSE [pos |-> pos, character |-> character, settingName |-> settingName]

\* while ((document.available()) && (character != '=')) { name += c; c = read(); }
RECURSIVE ReadName(_, _, _, _)
ReadName(s, pos, character, settingName) ==
    IF Available(s, pos) /\ character # "="
    THEN ReadName(s, Advance(s, pos), Read(s, pos), Append(settingName, character))
    ELSE [pos |-> pos, character |-> character, settingName |-> settingName]

\* faulty variant: a '[' inside a value ends the value
RECURSIVE ReadValueStopsAtOpen(_, _, _, _)
ReadValueStopsAtOpen(s, pos, character, settingValue) ==
    IF Available(s, pos) /\ character # "]" /\ character # "["
    THEN ReadValueStopsAtOpen(s, Advance(s, pos), Read(s, pos),
                              Append(settingValue, character))
    ELSE [pos |-> pos, character |-> character, settingValue |-> settingValue]

\* while ((document.available()) && (character != ']')) { value += c; c = read(); }
RECURSIVE ReadValue(_, _, _, _)
ReadValue(s, pos, character, settingValue) ==
    IF Available(s, pos) /\ character # "]"
    THEN ReadValue(s, Advance(s, pos), Read(s, pos), Append(settingValue, character))
    ELSE [pos |-> pos, character |-> character, settingValue |-> settingValue]

\* the outer while (document.available()) loop, one iteration per unfolding
RECURSIVE ParseLoop(_, _, _, _, _)
ParseLoop(s, pos, settingName, settingValue, g) ==
    IF ~Available(s, pos) THEN g
    ELSE LET a == SeekOpen(s, Advance(s, pos), Read(s, pos))
             b == ReadName(s, Advance(s, a.pos), Read(s, a.pos), settingName)
             v == ReadValue(s, Advance(s, b.pos), Read(s, b.pos), settingValue)
         IN IF v.character = "]"
            THEN ParseLoop(s, v.pos, <<>>, <<>>,
                    [ApplySetting(g, b.settingName, v.settingValue) EXCEPT
                        !.applied = Append(g.applied,
                                           <<b.settingName, v.settingValue>>)])
            ELSE ParseLoop(s, v.pos, b.settingName, v.settingValue, g)

ReadSettingsFromFile(s, g) == ParseLoop(s, 0, <<>>, <<>>, g)

(***************************************************************************)
(* Files as written on the card.  A settings file is a sequence of         *)
(* segments: complete [key=value] entries, other text, and (last) an entry *)
(* cut short by the end of the file.  Bytes gives the stream the parser    *)
(* reads.                                                                  *)
(***************************************************************************)
Entry(k, v) == [kind |-> "entry", key |-> k, value |-> v]

Text(t) == [kind |-> "text", key |-> t, value |-> <<>>]

CutName(k) == [kind |-> "cutName", key |-> k, value |-> <<>>]

CutValue(k, v) == [kind |-> "cutValue", key |-> k, value |-> v]

SegmentBytes(seg) ==
    IF seg.kind = "entry" THEN <<"[">> \o seg.key \o <<"=">> \o seg.value \o <<"]">>
    ELSE IF seg.kind = "cutName" THEN <<"[">> \o seg.key
    ELSE IF seg.kind = "cutValue" THEN <<"[">> \o seg.key \o <<"=">> \o seg.value
    ELSE seg.key

RECURSIVE Bytes(_)
Bytes(segs) ==
    IF segs = <<>> THEN <<>> ELSE SegmentBytes(Head(segs)) \o Bytes(Tail(segs))

(***************************************************************************)
(* The storage collaborator.                                               *)
(***************************************************************************)
NoEntry == [name |-> 0, isDirectory |-> FALSE, content |-> <<>>]

Exists(path) == path \in DOMAIN sdFiles \/ path \in DOMAIN sdDirs

FileBytes(path) == IF path \in DOMAIN sdFiles THEN Bytes(sdFiles[path]) ELSE <<>>

DirEntries(path) == IF path \in DOMAIN sdDirs THEN sdDirs[path] ELSE <<>>

\* the File objects of the program; handles is the set of those that are open
MyFile == <<"myFile", 0>>

Dir == <<"dir", 0>>

EntryHandle(e) == <<"entry", e.name>>

ImageFile == <<"imageFile", 0>>

DataFile == <<"dataFile", 0>>

\* SD.open(path) and File::openNextFile()
OpenHandle(H, h) == H \cup {h}

\* File::close()
CloseHandle(H, h) == H \ {h}

(***************************************************************************)
(* The printer collaborator: every call is appended to log.                *)
(***************************************************************************)
CharAt0(s) == IF Len(s) > 0 THEN s[1] ELSE NUL

\* faulty variant: printer.begin() is called without the configured heat time
SetPrinterParametersCallsDefaultHeat(c) ==
    << <<"begin", 120>>, <<"setSize", CharAt0(c.fontSize)>>,
       <<"setLineHeight", c.lineHeight>>, <<"setCharset", c.charset>>,
       <<"setCodePage", c.codePage>> >>

SetPrinterParametersCalls(c) ==
    << <<"begin", c.heatTime>>, <<"setSize", CharAt0(c.fontSize)>>,
       <<"setLineHeight", c.lineHeight>>, <<"setCharset", c.charset>>,
       <<"setCodePage", c.codePage>> >>

\* bytes one printBitmap(w, h, stream) call takes from the stream:
\* h rows of (w + 7) / 8 bytes, nothing when a dimension is not positive
RowBytes(w) == IF w + 7 >= 0 THEN (w + 7) \div 8 ELSE 0 - ((0 - (w + 7)) \div 8)

BitmapBytes(w, h) == IF h > 0 /\ RowBytes(w) > 0 THEN RowBytes(w) * h ELSE 0

Min(a, b) == IF a <= b THEN a ELSE b

\* Stream::readStringUntil('\n'): the characters before the next newline
RECURSIVE LineLen(_, _)
LineLen(s, pos) ==
    IF pos < Len(s) /\ s[pos + 1] # "\n" THEN 1 + LineLen(s, pos + 1) ELSE 0

ReadStringUntil(s, pos) == SubSeq(s, pos + 1, pos + LineLen(s, pos))

AfterLine(s, pos) == Min(Len(s), pos + LineLen(s, pos) + 1)

\* while (dataFile.available()) printer.println(dataFile.readStringUntil(10));
RECURSIVE BodyLines(_, _)
BodyLines(s, pos) ==
    IF pos < Len(s)
    THEN << <<"println", ReadStringUntil(s, pos)>> >> \o BodyLines(s, AfterLine(s, pos))
    ELSE <<>>

\* faulty variant: the title formatting is taken back after the last line
PrintTextCallsTitleFormatStays(s, c) ==
    << <<"feed", 1>>, <<"boldOn">>, <<"justify", "C">>, <<"setSize", "M">>,
       <<"println", ReadStringUntil(s, 0)>> >>
    \o BodyLines(s, AfterLine(s, 0))
    \o << <<"setSize", CharAt0(c.fontSize)>>, <<"justify", "L">>, <<"boldOff">> >>

PrintTextCalls(s, c) ==
    << <<"feed", 1>>, <<"boldOn">>, <<"justify", "C">>, <<"setSize", "M">>,
       <<"println", ReadStringUntil(s, 0)>>,
       <<"setSize", CharAt0(c.fontSize)>>, <<"justify", "L">>, <<"boldOff">> >>
    \o BodyLines(s, AfterLine(s, 0))

(***************************************************************************)
(* Cards the runs start from.                                              *)
(***************************************************************************)
P_i == <<"/", "i">>     \* the image file
P_t == <<"/", "t">>     \* the text file
P_m == <<"/", "m">>     \* a path nothing is stored under
P_q == <<"/", "q">>     \* a second jobs directory

JobFiles ==
    { <<>>,
      <<Entry(K_image, P_i), Entry(K_width, <<"1">>), Entry(K_height, <<"1">>),
        Entry(K_body_text, P_t)>>,
      <<Entry(K_image, P_i)>>,
      <<Entry(K_body_text, P_t)>>,
      <<Entry(K_heat_time, <<"9">>), Entry(K_font_size, <<"M">>), Entry(K_jobs, P_q)>>,
      <<Entry(K_image, P_m), Entry(K_body_text, P_t)>>,
      <<Text(<<"x">>), Entry(K_width, <<"1">>), Entry(K_height, <<"2">>),
        Entry(K_image, P_i), Entry(K_body_text, P_m)>>,
      <<Entry(K_image, P_i), Entry(K_width, <<"1">>), CutValue(K_height, <<"1">>)>> }

GlobalFiles ==
    { <<Entry(K_line_height, <<"3","2">>), Entry(K_heat_time, <<"1","5","0">>)>>,
      <<Entry(K_jobs, P_q)>>,
      <<Entry(K_image, P_i), Entry(K_width, <<"1">>), Entry(K_height, <<"1">>),
        Entry(K_font_size, <<"M">>), Entry(K_heat_time, <<"7">>),
        Entry(K_heat_time, <<"1","5","0">>), CutValue(K_line_height, <<"3","2">>)>> }

ImageFiles == { <<>>, <<Text([i \in 1..MaxImage |-> "x"])>> }

TextFiles == { <<>>, <<Text(<<"a", "\n", "b", "\n", "c">>)>> }

DirectoryEntries ==
    { [isDirectory |-> FALSE, content |-> f] : f \in JobFiles }
    \cup { [isDirectory |-> TRUE, content |-> <<>>] }

\* entries are named by their place in the directory
Listings ==
    UNION { { [i \in 1..n |-> [name |-> i, isDirectory |-> l[i].isDirectory,
                               content |-> l[i].content]] :
              l \in [1..n -> DirectoryEntries] } : n \in 0..MaxEntries }

QListing == << [name |-> 1, isDirectory |-> FALSE,
                content |-> <<Entry(K_body_text, P_t)>>] >>

ResourceFiles(img, txt) == (P_i :> img) @@ (P_t :> txt)

Cards ==
    { ResourceFiles(img, txt) : img \in ImageFiles, txt \in TextFiles }
    \cup { (SETTINGS_FILE :> g) @@ ResourceFiles(img, txt) :
             g \in GlobalFiles, img \in ImageFiles, txt \in TextFiles }

CardDirs ==
    { (P_q :> QListing) }
    \cup { (DefaultJobs :> l) @@ (P_q :> QListing) : l \in Listings }

Init ==
    /\ pc = "setup"
    /\ sdPresent \in BOOLEAN
    /\ sdFiles \in Cards
    /\ sdDirs \in CardDirs
    /\ configuration = ConfigurationZero
    /\ document = DocumentZero
    /\ applied = <<>>
    /\ directoryName = <<>>
    /\ dirIndex = 0
    /\ entry = NoEntry
    /\ imageAvail = 0
    /\ log = <<>>
    /\ handles = {}

(***************************************************************************)
(* setup()                                                                 *)
(***************************************************************************)
\* faulty variant: the return after the failed SD.begin() is missing
SetupGoesOnWithoutCard ==
    /\ pc = "setup"
    /\ pc' = "configurationInit"
    /\ UNCHANGED <<sdPresent, sdFiles, sdDirs, configuration, document, applied,
                   directoryName, dirIndex, entry, imageAvail, log, handles>>

Setup ==
    /\ pc = "setup"
    /\ pc' = IF sdPresent THEN "configurationInit" ELSE "halted"
    /\ UNCHANGED <<sdPresent, sdFiles, sdDirs, configuration, document, applied,
                   directoryName, dirIndex, entry, imageAvail, log, handles>>

\* faulty variant: configuration.init() is not called
ConfigurationInitSkipped ==
    /\ pc = "configurationInit"
    /\ pc' = "readSDSettings"
    /\ UNCHANGED <<sdPresent, sdFiles, sdDirs, configuration, document, applied,
                   directoryName, dirIndex, entry, imageAvail, log, handles>>

ConfigurationInit ==
    /\ pc = "configurationInit"
    /\ configuration' = SettingsInit
    /\ pc' = "readSDSettings"
    /\ UNCHANGED <<sdPresent, sdFiles, sdDirs, document, applied,
                   directoryName, dirIndex, entry, imageAvail, log, handles>>

Globals == [configuration |-> configuration, document |-> document, applied |-> <<>>]

ReadSDSettings ==
    /\ pc = "readSDSettings"
    /\ \E g \in {IF SETTINGS_FILE \in DOMAIN sdFiles
                THEN ReadSettingsFromFile(FileBytes(SETTINGS_FILE), Globals)
                ELSE Globals} :
          /\ configuration' = g.configuration
          /\ document' = g.document
          /\ applied' = g.applied
    /\ pc' = "printFromDirectory"
    /\ handles' = IF SETTINGS_FILE \in DOMAIN sdFiles
                  THEN CloseHandle(OpenHandle(handles, MyFile), MyFile)
                  ELSE handles
    /\ UNCHANGED <<sdPresent, sdFiles, sdDirs, directoryName, dirIndex, entry,
                   imageAvail, log>>

SleepWake ==
    /\ pc = "sleep"
    /\ log' = log \o << <<"sleep">>, <<"wake">>, <<"setDefault">> >>
    /\ pc' = "done"
    /\ UNCHANGED <<sdPresent, sdFiles, sdDirs, configuration, document, applied,
                   directoryName, dirIndex, entry, imageAvail, handles>>

(***************************************************************************)
(* printFromDirectory(configuration.jobs)                                  *)
(***************************************************************************)
\* faulty variant: the final feed sits inside the SD.exists block
PrintFromDirectoryFeedsInsideIf ==
    /\ pc = "printFromDirectory"
    /\ directoryName' = configuration.jobs
    /\ dirIndex' = 0
    /\ pc' = IF Exists(configuration.jobs) THEN "openNextFile" ELSE "sleep"
    /\ handles' = IF Exists(configuration.jobs) THEN OpenHandle(handles, Dir)
                  ELSE handles
    /\ UNCHANGED <<sdPresent, sdFiles, sdDirs, configuration, document, applied,
                   entry, imageAvail, log>>

PrintFromDirectory ==
    /\ pc = "printFromDirectory"
    /\ directoryName' = configuration.jobs
    /\ dirIndex' = 0
    /\ pc' = IF Exists(configuration.jobs) THEN "openNextFile" ELSE "feed"
    /\ handles' = IF Exists(configuration.jobs) THEN OpenHandle(handles, Dir)
                  ELSE handles
    /\ UNCHANGED <<sdPresent, sdFiles, sdDirs, configuration, document, applied,
                   entry, imageAvail, log>>

\* faulty variant: the isDirectory test is missing
OpenNextFilePrintsDirectories ==
    /\ pc = "openNextFile"
    /\ IF dirIndex < Len(DirEntries(directoryName))
       THEN LET e == DirEntries(directoryName)[dirIndex + 1]
            IN /\ entry' = e
               /\ handles' = OpenHandle(handles, EntryHandle(e))
               /\ dirIndex' = dirIndex + 1
               /\ pc' = "documentInit"
               /\ log' = Append(log, <<"document", e.name>>)
       ELSE /\ entry' = NoEntry
            /\ handles' = handles
            /\ dirIndex' = 0
            /\ pc' = "dirClose"
            /\ log' = log
    /\ UNCHANGED <<sdPresent, sdFiles, sdDirs, configuration, document, applied,
                   directoryName, imageAvail>>

\* faulty variant: the scan reads the directory configuration.jobs names now
OpenNextFileFollowsConfiguration ==
    /\ pc = "openNextFile"
    /\ IF dirIndex < Len(DirEntries(configuration.jobs))
       THEN LET e == DirEntries(configuration.jobs)[dirIndex + 1]
            IN /\ entry' = e
               /\ handles' = OpenHandle(handles, EntryHandle(e))
               /\ dirIndex' = dirIndex + 1
               /\ pc' = IF e.isDirectory THEN "entryClose" ELSE "documentInit"
               /\ log' = IF e.isDirectory THEN log
                         ELSE Append(log, <<"document", e.name>>)
       ELSE /\ entry' = NoEntry
            /\ handles' = handles
            /\ dirIndex' = 0
            /\ pc' = "dirClose"
            /\ log' = log
    /\ UNCHANGED <<sdPresent, sdFiles, sdDirs, configuration, document, applied,
                   directoryName, imageAvail>>

OpenNextFile ==
    /\ pc = "openNextFile"
    /\ IF dirIndex < Len(DirEntries(directoryName))
       THEN LET e == DirEntries(directoryName)[dirIndex + 1]
            IN /\ entry' = e
               /\ handles' = OpenHandle(handles, EntryHandle(e))
               /\ dirIndex' = dirIndex + 1
               /\ pc' = IF e.isDirectory THEN "entryClose" ELSE "documentInit"
               /\ log' = IF e.isDirectory THEN log
                         ELSE Append(log, <<"document", e.name>>)
       ELSE /\ entry' = NoEntry
            /\ handles' = handles
            /\ dirIndex' = 0
            /\ pc' = "dirClose"
            /\ log' = log
    /\ UNCHANGED <<sdPresent, sdFiles, sdDirs, configuration, document, applied,
                   directoryName, imageAvail>>

\* faulty variant: document.init() is not called before the job's parse
DocumentInitStepSkipped ==
    /\ pc = "documentInit"
    /\ pc' = "readSettingsFromFile"
    /\ UNCHANGED <<sdPresent, sdFiles, sdDirs, configuration, document, applied,
                   directoryName, dirIndex, entry, imageAvail, log, handles>>

DocumentInitStep ==
    /\ pc = "documentInit"
    /\ document' = DocumentInit(document)
    /\ pc' = "readSettingsFromFile"
    /\ UNCHANGED <<sdPresent, sdFiles, sdDirs, configuration, applied,
                   directoryName, dirIndex, entry, imageAvail, log, handles>>

ReadJobSettings ==
    /\ pc = "readSettingsFromFile"
    /\ \E g \in {ReadSettingsFromFile(Bytes(entry.content), Globals)} :
          /\ configuration' = g.configuration
          /\ document' = g.document
          /\ applied' = g.applied
    /\ pc' = "setPrinterParameters"
    /\ UNCHANGED <<sdPresent, sdFiles, sdDirs, directoryName, dirIndex, entry,
                   imageAvail, log, handles>>

SetPrinterParameters ==
    /\ pc = "setPrinterParameters"
    /\ log' = log \o SetPrinterParametersCalls(configuration)
    /\ pc' = "printImage"
    /\ UNCHANGED <<sdPresent, sdFiles, sdDirs, configuration, document, applied,
                   directoryName, dirIndex, entry, imageAvail, handles>>

\* faulty variant: the feed sits inside the entry loop
EntryCloseFeeds ==
    /\ pc = "entryClose"
    /\ entry' = NoEntry
    /\ log' = Append(log, <<"feed", 2>>)
    /\ pc' = "openNextFile"
    /\ handles' = CloseHandle(handles, EntryHandle(entry))
    /\ UNCHANGED <<sdPresent, sdFiles, sdDirs, configuration, document, applied,
                   directoryName, dirIndex, imageAvail>>

EntryClose ==
    /\ pc = "entryClose"
    /\ entry' = NoEntry
    /\ pc' = "openNextFile"
    /\ handles' = CloseHandle(handles, EntryHandle(entry))
    /\ UNCHANGED <<sdPresent, sdFiles, sdDirs, configuration, document, applied,
                   directoryName, dirIndex, imageAvail, log>>

DirClose ==
    /\ pc = "dirClose"
    /\ pc' = "feed"
    /\ handles' = CloseHandle(handles, Dir)
    /\ UNCHANGED <<sdPresent, sdFiles, sdDirs, configuration, document, applied,
                   directoryName, dirIndex, entry, imageAvail, log>>

FinalFeed ==
    /\ pc = "feed"
    /\ log' = Append(log, <<"feed", 2>>)
    /\ pc' = "sleep"
    /\ UNCHANGED <<sdPresent, sdFiles, sdDirs, configuration, document, applied,
                   directoryName, dirIndex, entry, imageAvail, handles>>

(***************************************************************************)
(* printImage(document.image, document.imageWidth, document.imageHeight)   *)
(***************************************************************************)
\* faulty variant: a job whose image does not exist is given up, text included
PrintImageMissingSkipsText ==
    /\ pc = "printImage"
    /\ IF Exists(document.image)
       THEN /\ log' = Append(log, <<"feed", 1>>)
            /\ imageAvail' = Len(FileBytes(document.image))
            /\ pc' = "printBitmap"
            /\ handles' = OpenHandle(handles, ImageFile)
       ELSE /\ log' = log
            /\ imageAvail' = imageAvail
            /\ pc' = "entryClose"
            /\ handles' = handles
    /\ UNCHANGED <<sdPresent, sdFiles, sdDirs, configuration, document, applied,
                   directoryName, dirIndex, entry>>

PrintImage ==
    /\ pc = "printImage"
    /\ IF Exists(document.image)
       THEN /\ log' = Append(log, <<"feed", 1>>)
            /\ imageAvail' = Len(FileBytes(document.image))
            /\ pc' = "printBitmap"
            /\ handles' = OpenHandle(handles, ImageFile)
       ELSE /\ log' = log
            /\ imageAvail' = imageAvail
            /\ pc' = "printText"
            /\ handles' = handles
    /\ UNCHANGED <<sdPresent, sdFiles, sdDirs, configuration, document, applied,
                   directoryName, dirIndex, entry>>

\* the printBitmap calls that end the log
RECURSIVE TrailingBitmaps(_)
TrailingBitmaps(l) ==
    IF l # <<>> /\ l[Len(l)][1] = "printBitmap"
    THEN 1 + TrailingBitmaps(SubSeq(l, 1, Len(l) - 1))
    ELSE 0

\* one iteration of while (imageFile.available()) printer.printBitmap(...);
\* the log keeps at most MaxImage + 1 calls of one image: calls beyond those
\* took no byte from the stream
PrintBitmap ==
    /\ pc = "printBitmap"
    /\ imageAvail > 0
    /\ imageAvail' = imageAvail
                     - Min(imageAvail, BitmapBytes(document.imageWidth,
                                                   document.imageHeight))
    /\ log' = IF TrailingBitmaps(log) <= MaxImage
              THEN Append(log, <<"printBitmap", document.imageWidth,
                                 document.imageHeight>>)
              ELSE log
    /\ UNCHANGED <<pc, sdPresent, sdFiles, sdDirs, configuration, document, applied,
                   directoryName, dirIndex, entry, handles>>

\* faulty variant: printImage returns without imageFile.close()
ImageCloseLeaks ==
    /\ pc = "printBitmap"
    /\ imageAvail = 0
    /\ pc' = "printText"
    /\ UNCHANGED <<sdPresent, sdFiles, sdDirs, configuration, document, applied,
                   directoryName, dirIndex, entry, imageAvail, log, handles>>

ImageClose ==
    /\ pc = "printBitmap"
    /\ imageAvail = 0
    /\ pc' = "printText"
    /\ handles' = CloseHandle(handles, ImageFile)
    /\ UNCHANGED <<sdPresent, sdFiles, sdDirs, configuration, document, applied,
                   directoryName, dirIndex, entry, imageAvail, log>>

(***************************************************************************)
(* printText(document.bodyText)                                            *)
(***************************************************************************)
PrintText ==
    /\ pc = "printText"
    /\ log' = IF Exists(document.bodyText)
              THEN log \o PrintTextCalls(FileBytes(document.bodyText), configuration)
              ELSE log
    /\ pc' = "entryClose"
    /\ handles' = IF Exists(document.bodyText)
                  THEN CloseHandle(OpenHandle(handles, DataFile), DataFile)
                  ELSE handles
    /\ UNCHANGED <<sdPresent, sdFiles, sdDirs, configuration, document, applied,
                   directoryName, dirIndex, entry, imageAvail>>

Next ==
    \/ Setup
    \/ ConfigurationInit
    \/ ReadSDSettings
    \/ PrintFromDirectory
    \/ OpenNextFile
    \/ DocumentInitStep
    \/ ReadJobSettings
    \/ SetPrinterParameters
    \/ PrintImage
    \/ PrintBitmap
    \/ ImageClose
    \/ PrintText
    \/ EntryClose
    \/ DirClose
    \/ FinalFeed
    \/ SleepWake

Spec == Init /\ [][Next]_vars

(***************************************************************************)
(* SpecParse: readSDSettings over every short stream of brackets, equals   *)
(* signs and ordinary characters, and over generated settings files.       *)
(***************************************************************************)
RawAlphabet == {"[", "=", "]", "a", "1"}

GenKeys == { K_width, K_heat_time, <<"[", "]">> }

GenValues == { <<>>, <<"a", "b", "c">>, <<"1", "a">>, <<"=", "[">> }

GenJunk == { <<>>, <<"x", "]", "=">> }

GenItems == { <<Text(j), Entry(k, v)>> : j \in GenJunk, k \in GenKeys, v \in GenValues }

GenTails ==
    { <<>>, <<Text(<<"=", "x">>)>>, <<CutName(K_width)>>, <<CutName(<<"[", "]">>)>>,
      <<CutValue(K_width, <<"1">>)>>, <<CutValue(K_heat_time, <<>>)>>,
      <<CutValue(<<>>, <<"a", "b">>)>> }

RECURSIVE Flatten(_)
Flatten(ss) == IF ss = <<>> THEN <<>> ELSE Head(ss) \o Flatten(Tail(ss))

\* a raw stream: any characters of RawAlphabet
RawFile(r) == <<Text(r)>>

\* a generated file: items of skipped text and a complete entry, then a tail
GenFile(items, t) == Flatten(items) \o t

InitParse ==
    /\ pc = "readSDSettings"
    /\ sdPresent = TRUE
    /\ \/ \E n \in 0..MaxRaw : \E r \in [1..n -> RawAlphabet] :
             sdFiles = (SETTINGS_FILE :> RawFile(r))
       \/ \E n \in 0..MaxPairs : \E items \in [1..n -> GenItems], t \in GenTails :
             sdFiles = (SETTINGS_FILE :> GenFile(items, t))
    /\ sdDirs = <<>>
    /\ configuration = SettingsInit
    /\ document = DocumentZero
    /\ applied = <<>>
    /\ directoryName = <<>>
    /\ dirIndex = 0
    /\ entry = NoEntry
    /\ imageAvail = 0
    /\ log = <<>>
    /\ handles = {}

NextParse == ReadSDSettings

SpecParse == InitParse /\ [][NextParse]_vars

(***************************************************************************)
(* SpecApply: applySetting called with keys of the dispatch table and      *)
(* keys outside it.                                                        *)
(***************************************************************************)
ApplyKeys ==
    { K_font_size, K_jobs, K_line_height, K_charset, K_codepage, K_heat_time,
      K_image, K_body_text, K_width, K_height,
      <<"W","i","d","t","h">>, <<>>, <<"w","i","d","t","h"," ">> }

ApplyValues == { <<>>, <<"7">>, <<"a","b","c">>, <<"1","2","a">>, <<"-","3">> }

InitApply ==
    /\ pc = "applySetting"
    /\ sdPresent = TRUE
    /\ sdFiles = <<>>
    /\ sdDirs = <<>>
    /\ configuration = SettingsInit
    /\ document = DocumentZero
    /\ applied = <<>>
    /\ directoryName = <<>>
    /\ dirIndex = 0
    /\ entry = NoEntry
    /\ imageAvail = 0
    /\ log = <<>>
    /\ handles = {}

ApplySettingCall ==
    /\ pc = "applySetting"
    /\ Len(applied) < MaxApplies
    /\ \E k \in ApplyKeys, v \in ApplyValues :
         \E g \in {ApplySetting(Globals, k, v)} :
            /\ configuration' = g.configuration
            /\ document' = g.document
            /\ applied' = Append(applied, <<k, v>>)
    /\ UNCHANGED <<pc, sdPresent, sdFiles, sdDirs, directoryName, dirIndex, entry,
                   imageAvail, log, handles>>

NextApply == ApplySettingCall

SpecApply == InitApply /\ [][NextApply]_vars

(***************************************************************************)
(* Claims about the parser (SpecParse).                                    *)
(***************************************************************************)
Contains(s, c) == \E i \in 1..Len(s) : s[i] = c

Front(s) == SubSeq(s, 1, Len(s) - 1)

\* complete entries with no '=' in a key and no ']' in a value, and other
\* text with no '['
WellFormed(segs) ==
    \A i \in 1..Len(segs) :
       \/ /\ segs[i].kind = "entry"
          /\ ~Contains(segs[i].key, "=")
          /\ ~Contains(segs[i].value, "]")
       \/ /\ segs[i].kind = "text"
          /\ ~Contains(segs[i].key, "[")

RECURSIVE PairsOf(_)
PairsOf(segs) ==
    IF segs = <<>> THEN <<>>
    ELSE (IF Head(segs).kind = "entry"
          THEN << <<Head(segs).key, Head(segs).value>> >> ELSE <<>>)
         \o PairsOf(Tail(segs))

Parsed == pc = "printFromDirectory"

SettingsSegments == sdFiles[SETTINGS_FILE]

\* C1: a stream of [k=v] entries (no '=' in a key, no ']' in a value), with
\* text without '[' between them, has exactly its pairs applied, once each
\* and in stream order.
C1_ExactPairs ==
    (Parsed /\ WellFormed(SettingsSegments)) => applied = PairsOf(SettingsSegments)

C1_Witness ==
    /\ Parsed
    /\ WellFormed(SettingsSegments)
    /\ Len(applied) = 2
    /\ applied[1] = <<K_width, <<"=", "[">> >>
    /\ \E i \in 1..Len(SettingsSegments) :
          SettingsSegments[i].kind = "text" /\ SettingsSegments[i].key # <<>>

\* the stream ends inside its last entry: before the '=' of the key or
\* before the ']' of the value
EndsInsideEntry(segs) ==
    /\ segs # <<>>
    /\ WellFormed(Front(segs))
    /\ LET last == segs[Len(segs)]
       IN \/ last.kind = "cutName" /\ ~Contains(last.key, "=")
          \/ /\ last.kind = "cutValue"
             /\ ~Contains(last.key, "=")
             /\ ~Contains(last.value, "]")

\* the records after applying the pairs ps, in order, to the records of g
RECURSIVE EffectOf(_, _)
EffectOf(ps, g) ==
    IF ps = <<>> THEN g
    ELSE EffectOf(Tail(ps), ApplySetting(g, Head(ps)[1], Head(ps)[2]))

StartGlobals ==
    [configuration |-> SettingsInit, document |-> DocumentZero, applied |-> <<>>]

\* C2: when the stream ends before the terminating character of its last
\* entry, no pair is applied for that entry and the pairs before it have
\* their full effect on configuration and document.
C2_CutEntryDropped ==
    (Parsed /\ EndsInsideEntry(SettingsSegments)) =>
        LET before == PairsOf(Front(SettingsSegments))
        IN /\ applied = before
           /\ configuration = EffectOf(before, StartGlobals).configuration
           /\ document = EffectOf(before, StartGlobals).document

C2_Witness ==
    /\ Parsed
    /\ EndsInsideEntry(SettingsSegments)
    /\ SettingsSegments[Len(SettingsSegments)] = CutValue(K_width, <<"1">>)
    /\ applied = << <<K_heat_time, <<"1", "a">> >> >>
    /\ configuration.heatTime = 1
    /\ document.imageWidth = 0

\* the three-state machine SEEK_OPEN -> READ_NAME -> READ_VALUE, one
\* character per step; out is the sequence of pairs emitted so far
RECURSIVE Machine(_, _, _, _, _, _)
Machine(s, i, state, key, value, out) ==
    IF i > Len(s) THEN out
    ELSE IF state = "SEEK_OPEN"
         THEN Machine(s, i + 1, IF s[i] = "[" THEN "READ_NAME" ELSE "SEEK_OPEN",
                      <<>>, <<>>, out)
    ELSE IF state = "READ_NAME"
         THEN IF s[i] = "="
              THEN Machine(s, i + 1, "READ_VALUE", key, value, out)
              ELSE Machine(s, i + 1, "READ_NAME", Append(key, s[i]), value, out)
    ELSE IF s[i] = "]"
         THEN Machine(s, i + 1, "SEEK_OPEN", <<>>, <<>>, Append(out, <<key, value>>))
         ELSE Machine(s, i + 1, "READ_VALUE", key, Append(value, s[i]), out)

\* C3: on every stream the pairs applied are those the three-state machine
\* emits: one pair per ']' read in READ_VALUE, empty keys and values
\* included, a '[' inside a key or value being ordinary content.
C3_RefinesMachine ==
    Parsed => applied = Machine(FileBytes(SETTINGS_FILE), 1, "SEEK_OPEN", <<>>, <<>>, <<>>)

C3_Witness ==
    /\ Parsed
    /\ FileBytes(SETTINGS_FILE) = <<"[", "[", "=", "]", "[">>
    /\ applied = << << <<"[">>, <<>> >> >>

IntegerKeys == {K_line_height, K_charset, K_codepage, K_heat_time, K_width, K_height}

IntegerField(k) ==
    IF k = K_line_height THEN configuration.lineHeight
    ELSE IF k = K_charset THEN configuration.charset
    ELSE IF k = K_codepage THEN configuration.codePage
    ELSE IF k = K_heat_time THEN configuration.heatTime
    ELSE IF k = K_width THEN document.imageWidth
    ELSE document.imageHeight

\* the value of the last pair of ps whose key is k
LastValue(ps, k) ==
    ps[CHOOSE i \in 1..Len(ps) :
          ps[i][1] = k /\ \A j \in (i + 1)..Len(ps) : ps[j][1] # k][2]

HasKey(ps, k) == \E i \in 1..Len(ps) : ps[i][1] = k

\* v is a decimal integer: an optional sign and then digits only
IsNumber(v) ==
    LET digits == IF v # <<>> /\ v[1] \in {"+", "-"} THEN Tail(v) ELSE v
    IN digits # <<>> /\ \A i \in 1..Len(digits) : IsDigit(digits[i])

\* v begins with a number: blanks, an optional sign, then a digit
BeginsWithNumber(v) ==
    \E n \in 1..Len(v) :
       /\ IsDigit(v[n])
       /\ \A j \in 1..(n - 1) :
             v[j] \in SpaceChars \/ (j = n - 1 /\ v[j] \in {"+", "-"})

\* C8 as stated: an integer key whose value is not a number sets its field
\* to 0, and the pairs after it are still applied.
C8_NonNumericIsZero ==
    (Parsed /\ WellFormed(SettingsSegments)) =>
        /\ applied = PairsOf(SettingsSegments)
        /\ \A k \in IntegerKeys :
              (HasKey(applied, k) /\ ~IsNumber(LastValue(applied, k)))
                 => IntegerField(k) = 0

\* C8 amended: an integer key whose value does not begin with a number sets
\* its field to 0 (a value that begins with one sets the field to that
\* number), and the pairs after it are still applied.
C8_NoLeadingNumberIsZero ==
    (Parsed /\ WellFormed(SettingsSegments)) =>
        /\ applied = PairsOf(SettingsSegments)
        /\ \A k \in IntegerKeys :
              (HasKey(applied, k) /\ ~BeginsWithNumber(LastValue(applied, k)))
                 => IntegerField(k) = 0

C8_Witness ==
    /\ Parsed
    /\ WellFormed(SettingsSegments)
    /\ applied = << <<K_heat_time, <<"a", "b", "c">> >>, <<K_width, <<"1", "a">> >> >>
    /\ configuration.heatTime = 0
    /\ document.imageWidth = 1

(***************************************************************************)
(* Claims about applySetting (SpecApply).                                  *)
(***************************************************************************)
FieldNames ==
    {"charset", "codePage", "lineHeight", "heatTime", "dotPrintTime", "dotFeedTime",
     "fontSize", "jobs", "imageWidth", "imageHeight", "image", "bodyText"}

FieldOf(c, d, f) == IF f \in DOMAIN c THEN c[f] ELSE d[f]

\* the dispatch table: the field a key is assigned to
Destination(k) ==
    IF k = K_font_size THEN "fontSize"
    ELSE IF k = K_jobs THEN "jobs"
    ELSE IF k = K_line_height THEN "lineHeight"
    ELSE IF k = K_charset THEN "charset"
    ELSE IF k = K_codepage THEN "codePage"
    ELSE IF k = K_heat_time THEN "heatTime"
    ELSE IF k = K_image THEN "image"
    ELSE IF k = K_body_text THEN "bodyText"
    ELSE IF k = K_width THEN "imageWidth"
    ELSE IF k = K_height THEN "imageHeight"
    ELSE "none"

StringFields == {"fontSize", "jobs", "image", "bodyText"}

\* C7: applySetting with a key of the dispatch table assigns the one field
\* of the table and leaves every other field of both records unchanged; with
\* any other key it leaves both records unchanged.
C7_OneFieldOnly ==
    [][(pc = "applySetting" /\ Len(applied') = Len(applied) + 1) =>
          LET k == applied'[Len(applied')][1]
              v == applied'[Len(applied')][2]
          IN /\ \A f \in FieldNames :
                   f # Destination(k) =>
                      FieldOf(configuration', document', f)
                         = FieldOf(configuration, document, f)
             /\ Destination(k) \in StringFields =>
                   FieldOf(configuration', document', Destination(k)) = v
             /\ (Destination(k) \in FieldNames \ StringFields /\ v = <<"7">>) =>
                   FieldOf(configuration', document', Destination(k)) = 7
      ]_vars

C7_Witness ==
    /\ pc = "applySetting"
    /\ applied = << <<K_width, <<"7">> >>, << <<"W","i","d","t","h">>, <<"-", "3">> >> >>
    /\ document = [DocumentZero EXCEPT !.imageWidth = 7]
    /\ configuration = SettingsInit

(***************************************************************************)
(* Claims about the job loop (Spec).                                       *)
(***************************************************************************)
\* the places of the calls op in the log
Places(op) == { i \in 1..Len(log) : log[i][1] = op }

FeedTwoPlaces == { i \in Places("feed") : log[i][2] = 2 }

\* the names of the "Printing document" lines of l from place j on, in order
RECURSIVE DocumentNamesFrom(_, _)
DocumentNamesFrom(l, j) ==
    IF j > Len(l) THEN <<>>
    ELSE (IF l[j][1] = "document" THEN <<l[j][2]>> ELSE <<>>)
         \o DocumentNamesFrom(l, j + 1)

DocumentNames(l) == DocumentNamesFrom(l, 1)

RECURSIVE FileNames(_)
FileNames(es) ==
    IF es = <<>> THEN <<>>
    ELSE (IF Head(es).isDirectory THEN <<>> ELSE <<Head(es).name>>)
         \o FileNames(Tail(es))

IsPrefix(a, b) == Len(a) <= Len(b) /\ SubSeq(b, 1, Len(a)) = a

\* printFromDirectory has been called / has returned
Scanning == pc \notin {"setup", "halted", "configurationInit", "readSDSettings",
                       "printFromDirectory"}

Returned == pc \in {"sleep", "done"}

RenderCalls == {"printBitmap", "println"}

ConfigureCalls == {"begin", "setLineHeight", "setCharset", "setCodePage"}

\* the place of the first "Printing document" line from place j on, or the
\* place after the end of the log
RECURSIVE NextDocument(_)
NextDocument(j) ==
    IF j > Len(log) THEN Len(log) + 1
    ELSE IF log[j][1] = "document" THEN j
    ELSE NextDocument(j + 1)

\* the log from the "Printing document" line at place i up to the next one
SectionEnd(i) == NextDocument(i + 1) - 1

\* the calls op of the job at place i
CallsOf(i, op) == { j \in (i + 1)..SectionEnd(i) : log[j][1] = op }

ProgramState ==
    <<pc, configuration, document, directoryName, dirIndex, entry, imageAvail,
      handles>>

\* C5: every started job runs to completion and the job loop ends.  The
\* flow of control is sequential and deterministic, so this requires that no
\* step leaves the program in the state it was in: such a step repeats for
\* ever, the job never completes and the final feed is never reached.
C5_EveryStepAdvances == [][ProgramState' # ProgramState]_vars

\* C6: the document is empty right after its reset and before the parse; at
\* the job's render steps each field holds the value of the last pair of the
\* job's own file for its key, or the empty/zero value when the file has
\* none; Document::init gives that same empty state from any state, once or
\* twice.
OwnPairs == PairsOf(entry.content)

OwnValue(k, zero, isInt) ==
    IF HasKey(OwnPairs, k)
    THEN (IF isInt THEN ToInt(LastValue(OwnPairs, k)) ELSE LastValue(OwnPairs, k))
    ELSE zero

C6_DescriptorIsOwn ==
    /\ pc = "readSettingsFromFile" => document = DocumentZero
    /\ pc \in {"setPrinterParameters", "printImage", "printBitmap", "printText"} =>
          /\ document.image = OwnValue(K_image, <<>>, FALSE)
          /\ document.bodyText = OwnValue(K_body_text, <<>>, FALSE)
          /\ document.imageWidth = OwnValue(K_width, 0, TRUE)
          /\ document.imageHeight = OwnValue(K_height, 0, TRUE)
    /\ DocumentInit(document) = DocumentZero
    /\ DocumentInit(DocumentInit(document)) = DocumentInit(document)

C6_Witness ==
    /\ pc = "printImage"
    /\ entry.name = 2
    /\ HasKey(PairsOf(DirEntries(directoryName)[1].content), K_image)
    /\ HasKey(PairsOf(DirEntries(directoryName)[1].content), K_width)
    /\ document = [DocumentZero EXCEPT !.bodyText = P_t]

\* C9: when the jobs location yields no job entry (absent, empty or only
\* subdirectories) the log has no configure and no render call, and once
\* printFromDirectory has returned it has exactly one feed call.
C9_NoJobsOneFeed ==
    (Scanning /\ FileNames(DirEntries(directoryName)) = <<>>) =>
        /\ \A i \in 1..Len(log) :
              log[i][1] \notin ConfigureCalls \cup RenderCalls \cup {"setSize"}
        /\ Cardinality(Places("feed")) = IF Returned THEN 1 ELSE 0

C9_Witness ==
    /\ pc = "done"
    /\ Len(DirEntries(directoryName)) = 2
    /\ FileNames(DirEntries(directoryName)) = <<>>
    /\ log = << <<"feed", 2>>, <<"sleep">>, <<"wake">>, <<"setDefault">> >>

JobAt(i) == DirEntries(directoryName)[log[i][2]]

\* the value the file of that entry gives key k: that of its last pair,
\* converted when the field is an integer, zero when it has no such pair
JobValue(i, k, zero, isInt) ==
    IF HasKey(PairsOf(JobAt(i).content), k)
    THEN (IF isInt THEN ToInt(LastValue(PairsOf(JobAt(i).content), k))
          ELSE LastValue(PairsOf(JobAt(i).content), k))
    ELSE zero

JobImage(i) == JobValue(i, K_image, <<>>, FALSE)

JobBodyText(i) == JobValue(i, K_body_text, <<>>, FALSE)

\* the job at place i has gone through printText
JobDone(i) ==
    \/ SectionEnd(i) < Len(log)
    \/ pc \in {"entryClose", "openNextFile", "dirClose", "feed", "sleep", "done"}

\* C11: a completed job whose image and body text both exist has exactly one
\* printBitmap call, with the job's width and height, and one text render
\* sequence, and the printBitmap call comes before every println of the job.
C11_OneBitmapThenText ==
    \A i \in Places("document") :
        (JobDone(i) /\ Exists(JobImage(i)) /\ Exists(JobBodyText(i))) =>
            /\ Cardinality(CallsOf(i, "printBitmap")) = 1
            /\ \A b \in CallsOf(i, "printBitmap") :
                  /\ log[b][2] = JobValue(i, K_width, 0, TRUE)
                  /\ log[b][3] = JobValue(i, K_height, 0, TRUE)
                  /\ \A p \in CallsOf(i, "println") : b < p
            /\ Cardinality(CallsOf(i, "boldOn")) = 1

GlobalPairs ==
    IF SETTINGS_FILE \in DOMAIN sdFiles THEN PairsOf(sdFiles[SETTINGS_FILE]) ELSE <<>>

\* the pairs of the files among the entries es, in order
RECURSIVE EntriesPairs(_)
EntriesPairs(es) ==
    IF es = <<>> THEN <<>>
    ELSE (IF Head(es).isDirectory THEN <<>> ELSE PairsOf(Head(es).content))
         \o EntriesPairs(Tail(es))

\* the pairs parsed when the job at place i has been parsed: those of the
\* global file, then those of every job file up to this one
PairsUpTo(i) ==
    GlobalPairs \o EntriesPairs(SubSeq(DirEntries(directoryName), 1, log[i][2]))

\* the value of the last pair for k among ps, or the default
Layered(ps, k, default, isInt) ==
    IF HasKey(ps, k)
    THEN (IF isInt THEN ToInt(LastValue(ps, k)) ELSE LastValue(ps, k))
    ELSE default

\* C13: every job pushes the configuration to the printer once, straight
\* after its "Printing document" line (so after its parse and before any of
\* its render calls): begin, setSize, setLineHeight, setCharset and
\* setCodePage, with for each field the value of the last pair for its key
\* among the global file and the job files parsed so far, this job's
\* included, or the compiled-in default when there is none.
C13_ConfigurationPushedOnce ==
    \A i \in Places("document") :
        /\ \A j \in (i + 6)..SectionEnd(i) : log[j][1] \notin ConfigureCalls
        /\ SectionEnd(i) > i =>
              \A ps \in {PairsUpTo(i)} :
                  /\ SectionEnd(i) >= i + 5
                  /\ log[i + 1][1] = "begin"
                  /\ log[i + 1][2] = Layered(ps, K_heat_time, SettingsInit.heatTime, TRUE)
                  /\ log[i + 2][1] = "setSize"
                  /\ log[i + 2][2] =
                        CharAt0(Layered(ps, K_font_size, SettingsInit.fontSize, FALSE))
                  /\ log[i + 3][1] = "setLineHeight"
                  /\ log[i + 3][2] =
                        Layered(ps, K_line_height, SettingsInit.lineHeight, TRUE)
                  /\ log[i + 4][1] = "setCharset"
                  /\ log[i + 4][2] = Layered(ps, K_charset, SettingsInit.charset, TRUE)
                  /\ log[i + 5][1] = "setCodePage"
                  /\ log[i + 5][2] = Layered(ps, K_codepage, SettingsInit.codePage, TRUE)

\* the global file sets heat time 150, job 1 sets it to 9 and the font size
\* to M, job 2 sets neither and is printed with 9 and M
C13_Witness ==
    /\ pc = "done"
    /\ DocumentNames(log) = <<1, 2>>
    /\ HasKey(GlobalPairs, K_line_height)
    /\ LastValue(GlobalPairs, K_heat_time) = <<"1", "5", "0">>
    /\ JobAt(1).content =
          <<Entry(K_heat_time, <<"9">>), Entry(K_font_size, <<"M">>), Entry(K_jobs, P_q)>>
    /\ \E i \in Places("document") :
          /\ log[i][2] = 2
          /\ JobAt(i).content = <<Entry(K_body_text, P_t)>>
          /\ log[i + 1] = <<"begin", 9>>
          /\ log[i + 2] = <<"setSize", "M">>
          /\ log[i + 3] = <<"setLineHeight", 32>>
          /\ CallsOf(i, "println") # {}

\* the place of the last call among ops before place p of the log, 0 if none
RECURSIVE LastBefore(_, _)
LastBefore(p, ops) ==
    IF p <= 1 THEN 0
    ELSE IF log[p - 1][1] \in ops THEN p - 1
    ELSE LastBefore(p - 1, ops)

\* the formatting the printer has when the call at place p is made
BoldAt(p) ==
    /\ LastBefore(p, {"boldOn", "boldOff"}) > 0
    /\ log[LastBefore(p, {"boldOn", "boldOff"})][1] = "boldOn"

JustifyAt(p) ==
    IF LastBefore(p, {"justify"}) > 0 THEN log[LastBefore(p, {"justify"})][2] ELSE NUL

SizeAt(p) ==
    IF LastBefore(p, {"setSize"}) > 0 THEN log[LastBefore(p, {"setSize"})][2] ELSE NUL

\* C14: of the println calls of a job the first is made bold, centred and in
\* size M; every later one is made not bold, left-justified and in the font
\* size the configuration holds after the job's parse.
C14_OnlyFirstLineIsTitle ==
    \A i \in Places("document") :
        \A p \in CallsOf(i, "println") :
            IF \A q \in CallsOf(i, "println") : p <= q
            THEN /\ BoldAt(p)
                 /\ JustifyAt(p) = "C"
                 /\ SizeAt(p) = "M"
            ELSE /\ ~BoldAt(p)
                 /\ JustifyAt(p) = "L"
                 /\ SizeAt(p) = CharAt0(Layered(PairsUpTo(i), K_font_size,
                                                SettingsInit.fontSize, FALSE))

C14_Witness ==
    /\ pc = "entryClose"
    /\ DocumentNames(log) = <<1>>
    /\ configuration.fontSize = <<"S">>
    /\ Cardinality(CallsOf(1, "println")) = 3
    /\ \E p, q \in CallsOf(1, "println") :
          /\ log[p][2] = <<"a">>
          /\ BoldAt(p) /\ JustifyAt(p) = "C" /\ SizeAt(p) = "M"
          /\ log[q][2] = <<"c">>
          /\ ~BoldAt(q) /\ JustifyAt(q) = "L" /\ SizeAt(q) = "S"

\* C15: when readSDSettings has returned, every field of the configuration
\* that has a key holds the value of the last pair for that key in the global
\* settings file, and its Settings::init default when the file is missing,
\* has no pair for the key or is cut inside the pair; the two fields without
\* a key hold their defaults.  "[line_height=32][heat_time=150]" gives line
\* height 32, heat time 150 and font size "S".
C15_LastPairOrDefault ==
    pc = "printFromDirectory" =>
        /\ configuration.fontSize =
              Layered(GlobalPairs, K_font_size, SettingsInit.fontSize, FALSE)
        /\ configuration.jobs = Layered(GlobalPairs, K_jobs, SettingsInit.jobs, FALSE)
        /\ configuration.lineHeight =
              Layered(GlobalPairs, K_line_height, SettingsInit.lineHeight, TRUE)
        /\ configuration.charset =
              Layered(GlobalPairs, K_charset, SettingsInit.charset, TRUE)
        /\ configuration.codePage =
              Layered(GlobalPairs, K_codepage, SettingsInit.codePage, TRUE)
        /\ configuration.heatTime =
              Layered(GlobalPairs, K_heat_time, SettingsInit.heatTime, TRUE)
        /\ configuration.dotPrintTime = SettingsInit.dotPrintTime
        /\ configuration.dotFeedTime = SettingsInit.dotFeedTime
        /\ (/\ SETTINGS_FILE \in DOMAIN sdFiles
            /\ sdFiles[SETTINGS_FILE] =
                  <<Entry(K_line_height, <<"3","2">>), Entry(K_heat_time, <<"1","5","0">>)>>)
           => /\ configuration.lineHeight = 32
              /\ configuration.heatTime = 150
              /\ configuration.fontSize = <<"S">>

\* a file with two heat_time pairs that ends inside a line_height entry
C15_Witness ==
    /\ pc = "printFromDirectory"
    /\ SETTINGS_FILE \in DOMAIN sdFiles
    /\ EndsInsideEntry(sdFiles[SETTINGS_FILE])
    /\ Len(GlobalPairs) = 6
    /\ configuration = [SettingsInit EXCEPT !.fontSize = <<"M">>, !.heatTime = 150]

\* C16: when SD.begin() fails setup returns at once: the configuration is
\* not even initialised, no settings line is applied, no file is opened, no
\* entry is read and nothing is sent to the printer.  It is the only way the
\* run ends without printFromDirectory: a run that ends otherwise has a card
\* and has made the call, of which its one feed(2) is the trace.
C16_NoCardHaltsBeforePrinting ==
    /\ ~sdPresent =>
          /\ pc \in {"setup", "halted"}
          /\ log = <<>>
          /\ applied = <<>>
          /\ handles = {}
          /\ configuration = ConfigurationZero
          /\ document = DocumentZero
          /\ entry = NoEntry
          /\ dirIndex = 0
    /\ pc = "halted" => ~sdPresent
    /\ pc = "done" =>
          /\ sdPresent
          /\ Cardinality(FeedTwoPlaces) = 1
          /\ DocumentNames(log) = FileNames(DirEntries(directoryName))

C16_Witness ==
    /\ pc = "halted"
    /\ ~sdPresent
    /\ SETTINGS_FILE \in DOMAIN sdFiles
    /\ Len(FileNames(DirEntries(DefaultJobs))) = 2
    /\ log = <<>>
    /\ configuration = ConfigurationZero

(***************************************************************************)
(* Claims about the files the run opens (Spec).                            *)
(***************************************************************************)
\* C17: every File is closed by the step that opened it.  Outside
\* readSDSettings and printFromDirectory no File is open (so none is when
\* either has returned); between two entries only the directory is; while an
\* entry is processed the directory and that entry are, and the image file
\* only during the image loop: the settings file, the image file and the
\* text file are closed when their steps end, and each entry, file or
\* subdirectory, before the next one is opened.
C17_HandlesClosed ==
    /\ pc \in {"setup", "halted", "configurationInit", "readSDSettings",
               "printFromDirectory", "feed", "sleep", "done"} => handles = {}
    /\ pc \in {"openNextFile", "dirClose"} => handles = {Dir}
    /\ pc \in {"documentInit", "readSettingsFromFile", "setPrinterParameters",
               "printImage", "printText", "entryClose"} =>
          handles = {Dir, EntryHandle(entry)}
    /\ pc = "printBitmap" => handles = {Dir, EntryHandle(entry), ImageFile}

\* printFromDirectory has just returned from a directory with a subdirectory
\* and a job that printed an image and a text, the settings file was read
C17_Witness ==
    /\ pc = "feed"
    /\ handles = {}
    /\ SETTINGS_FILE \in DOMAIN sdFiles
    /\ Len(DirEntries(directoryName)) = 2
    /\ DirEntries(directoryName)[1].isDirectory
    /\ DocumentNames(log) = <<2>>
    /\ Places("printBitmap") # {}
    /\ Places("println") # {}

\* configuration.jobs when setup calls printFromDirectory: the value the
\* global settings file gives it, or the default
JobsAtCall == Layered(GlobalPairs, K_jobs, SettingsInit.jobs, FALSE)

\* C18: the scan iterates the directory configuration.jobs named when
\* printFromDirectory was called.  A jobs pair of a job file changes
\* configuration.jobs (it holds the last jobs pair parsed so far) and nothing
\* of the scan: the open entry is the next entry of that first directory,
\* the jobs printed are its files in order, and all of them when it is closed.
C18_ScanKeepsItsDirectory ==
    Scanning =>
        /\ directoryName = JobsAtCall
        /\ entry # NoEntry => entry = DirEntries(JobsAtCall)[dirIndex]
        /\ IsPrefix(DocumentNames(log), FileNames(DirEntries(JobsAtCall)))
        /\ pc \in {"dirClose", "feed", "sleep", "done"} =>
              DocumentNames(log) = FileNames(DirEntries(JobsAtCall))
        /\ pc \in {"setPrinterParameters", "printImage", "printBitmap", "printText",
                   "entryClose"} =>
              configuration.jobs =
                  Layered(GlobalPairs
                            \o EntriesPairs(SubSeq(DirEntries(JobsAtCall), 1, dirIndex)),
                          K_jobs, SettingsInit.jobs, FALSE)

\* job 1 of /jobs/ names /q as the jobs directory; job 2 of /jobs/ is printed
\* all the same, and the one job of /q is not
C18_Witness ==
    /\ pc = "done"
    /\ directoryName = DefaultJobs
    /\ configuration.jobs = P_q
    /\ Len(DirEntries(DefaultJobs)) = 2
    /\ HasKey(PairsOf(DirEntries(DefaultJobs)[1].content), K_jobs)
    /\ LastValue(PairsOf(DirEntries(DefaultJobs)[1].content), K_jobs) = P_q
    /\ DocumentNames(log) = <<1, 2>>
    /\ HasKey(PairsOf(DirEntries(DefaultJobs)[2].content), K_image)
    /\ Places("printBitmap") # {}
    /\ Places("println") = {}

\* C19: the image, width, height and body_text pairs of the global settings
\* file reach no job.  Whatever that file holds, a job's printBitmap calls
\* carry the width and height of the job's own file and are made only when
\* its own image path exists, the image feed and the text sequence are made
\* only for the job's own paths, and the lines printed are those of the
\* job's own text file.
C19_GlobalDescriptorErased ==
    \A i \in Places("document") :
        \A image \in {JobImage(i)}, bodyText \in {JobBodyText(i)},
           bitmaps \in {CallsOf(i, "printBitmap")}, lines \in {CallsOf(i, "println")} :
            /\ bitmaps # {} =>
                  /\ Exists(image)
                  /\ \A b \in bitmaps :
                        /\ log[b][2] = JobValue(i, K_width, 0, TRUE)
                        /\ log[b][3] = JobValue(i, K_height, 0, TRUE)
            /\ lines # {} =>
                  /\ Exists(bodyText)
                  /\ \A p \in lines :
                        (\A q \in lines : p <= q) =>
                            log[p][2] = ReadStringUntil(FileBytes(bodyText), 0)
            /\ JobDone(i) =>
                  Cardinality({ f \in CallsOf(i, "feed") : log[f][2] = 1 }) =
                      (IF Exists(image) THEN 1 ELSE 0)
                      + (IF Exists(bodyText) THEN 1 ELSE 0)

\* the global file names the image /i with width 1 and height 1; the one job
\* names a text only and prints that text and no image
C19_Witness ==
    /\ pc = "done"
    /\ HasKey(GlobalPairs, K_image)
    /\ LastValue(GlobalPairs, K_image) = P_i
    /\ HasKey(GlobalPairs, K_width)
    /\ FileBytes(P_i) # <<>>
    /\ DocumentNames(log) = <<1>>
    /\ JobAt(1).content = <<Entry(K_body_text, P_t)>>
    /\ Places("printBitmap") = {}
    /\ Cardinality(Places("println")) = 3

====
